---- MODULE Spec2Model ----
(***************************************************************************)
(* Flow2API userscript "Auto Sync & Login (Humanized)" v1.5                *)
(* (src/tampermonkey.js, lines 98-326): the route dispatch, the two login  *)
(* polls, the humanized typing sequence with its isTyping lock, and the    *)
(* cookie harvest / token sync of the business page.  Lines 1-97 of the     *)
(* file hold the script's v1.2, which has the same syncToken and a         *)
(* sendTokenToServer that differs in what it logs; v1.5 is what is         *)
(* modelled.                                                               *)
(*                                                                         *)
(* One behaviour is a sequence of page lifetimes of one browser tab.  The  *)
(* browser (page loads, DOM changes, timers firing, cookie store and       *)
(* backend answers, the user's menu commands) is the environment; every    *)
(* callback of the script is one action, run to its next suspension point. *)
(* Strings are sequences of one-character strings.                         *)
(***************************************************************************)
EXTENDS Naturals, Sequences, FiniteSets

VARIABLES
    host,       \* window.location.hostname, as a sequence of labels
    path,       \* window.location.pathname, as a sequence of segments
    scriptRan,  \* the IIFE of the script has run in this page
    handlers,   \* handlers the route dispatch has called in this page, in order
    intervals,  \* setInterval timers created in this page: [kind, active, clears]
    timers,     \* pending setTimeout timers of this page, per kind
    isTyping,   \* the lock of line 192
    typers,     \* tryAttemptLogin invocations suspended at an await
    dom,        \* what the probes of the page's DOM find
    field,      \* value of the input[name="Passwd"] element
    cred,       \* GM storage, key GOOGLE_PASSWORD
    cookieReq,  \* GM_cookie.list calls whose callback is outstanding
    resp,       \* the cookie store's answer the callback ran last with
    posts,      \* bodies (st) of the POSTs issued in this page, in order
    xhr,        \* number of POSTs whose answer is outstanding
    answer,     \* the backend's answer handled last
    submitClicks, \* clicks issued on the interstitial submit control in this page
    hist,       \* what has happened in this page so far: syncToken calls made,
                \* a missing-password warning given, a release timer fired
    op,         \* the step taken last
    eff         \* what the step taken last did to the world, in order

vars == <<host, path, scriptRan, handlers, intervals, timers, isTyping, typers,
          dom, field, cred, cookieReq, resp, posts, xhr, answer, submitClicks,
          hist, op, eff>>

----------------------------------------------------------------------------
(* Bounds of the model *)

\* in-flight typing sequences the model keeps apart (the lock allows one)
MaxTypers == 2
\* POSTs per page the model counts (the script issues one)
MaxPosts == 2
\* clicks on the submit control per page the model counts (the script issues one)
MaxClicks == 2
\* syncToken calls per page the model counts (the script makes one)
MaxSyncs == 2

\* credentials the user may have stored; the empty string is "not configured"
CredSet == {<<>>, <<"b">>, <<"a", "b">>}
\* values the page or the user may give the password field
EditSet == {<<>>, <<"x">>}
\* values of the session cookie
TokenSet == {"tok_1", "tok_2"}
\* lists of cookies the cookie store may answer with (their values)
CookieLists == {<<>>} \cup {<<t>> : t \in TokenSet}
                 \cup {<<t, u>> : t \in TokenSet, u \in TokenSet}
\* answers of the cookie store: callback(cookies, error); isNull: cookies is null
CookieAnswers == [isNull : {FALSE}, cookies : CookieLists, error : BOOLEAN]
                   \cup [isNull : {TRUE}, cookies : {<<>>}, error : BOOLEAN]
Emails == {"a@b.com"}
\* answers of the backend.  kind "load": onload runs with status and responseText;
\* body "bad": JSON.parse throws, "null": parses to null, "fail": success false,
\* "okNoData": success true without data, "ok": success true with data.email.
\* kind "error": the request failed in transport
Answers == [kind : {"load"}, status : {200, 500},
            body : {"bad", "null", "fail", "okNoData", "ok"}, email : Emails]
             \cup [kind : {"error"}, status : {0}, body : {"none"}, email : {"none"}]

\* Math.floor(Math.random() * 100), line 254: an integer of 0..99; the model
\* draws the least and the greatest
RandomDraws == {0, 99}

\* setTimeout(syncToken, 3000), line 278, in ms
SyncDelay == 3000
\* CONFIG.RELOAD_INTERVAL, line 126, in ms
ReloadInterval == 3600000

LabsHost == <<"labs", "google">>
AccountsHost == <<"accounts", "google", "com">>
SigninMarker == <<"auth", "signin">>
\* the pages the @match rules of lines 104-105 let the script run on, and what
\* the site serves there: the interstitial, a business page, a login page
Locations ==
    {[host |-> LabsHost, path |-> <<"fx", "api", "auth", "signin">>, page |-> "signin"],
     [host |-> LabsHost, path |-> <<"fx", "tools", "flow">>, page |-> "business"],
     [host |-> LabsHost, path |-> <<>>, page |-> "business"],
     [host |-> AccountsHost, path |-> <<"v3", "signin", "challenge", "pwd">>,
      page |-> "accounts"],
     [host |-> AccountsHost, path |-> <<"auth", "signin">>, page |-> "accounts"]}

PageOf(h, p) == (CHOOSE l \in Locations : l.host = h /\ l.path = p).page

----------------------------------------------------------------------------
(* String.prototype.includes on label sequences *)
Includes(s, m) ==
    \E k \in 0..Len(s) : k + Len(m) <= Len(s) /\ SubSeq(s, k + 1, k + Len(m)) = m

----------------------------------------------------------------------------
(* Route dispatch, lines 148-161: the handlers called, in order *)

\* Dispatch with the path test made before the host tests
DispatchPathFirst(h, p) ==
    IF Includes(p, SigninMarker)
    THEN <<"handleLabsAuthPage">>
    ELSE IF Includes(h, LabsHost)
         THEN <<"handleLabsGoogle">>
         ELSE IF Includes(h, AccountsHost)
              THEN <<"handleAccountsGoogle">>
              ELSE <<>>

\* Dispatch without the else of line 156
DispatchNoElse(h, p) ==
    IF Includes(h, LabsHost)
    THEN (IF Includes(p, SigninMarker) THEN <<"handleLabsAuthPage">> ELSE <<>>)
           \o <<"handleLabsGoogle">>
    ELSE IF Includes(h, AccountsHost)
         THEN <<"handleAccountsGoogle">>
         ELSE <<>>

\* the if / else-if chain of lines 152-161
Dispatch(h, p) ==
    IF Includes(h, LabsHost)
    THEN IF Includes(p, SigninMarker)
         THEN <<"handleLabsAuthPage">>
         ELSE <<"handleLabsGoogle">>
    ELSE IF Includes(h, AccountsHost)
         THEN <<"handleAccountsGoogle">>
         ELSE <<>>

\* setInterval calls of one handler (lines 168, 188)
IntervalsOf(h) ==
    CASE h = "handleLabsAuthPage" -> <<[kind |-> "checkBtn", active |-> TRUE, clears |-> 0]>>
      [] h = "handleAccountsGoogle" -> <<[kind |-> "loginPoll", active |-> TRUE, clears |-> 0]>>
      [] OTHER -> <<>>

\* TimeoutsOf without the setTimeout of line 284
TimeoutsOfNoReload(h) ==
    IF h = "handleLabsGoogle"
    THEN [sync |-> 1, reload |-> 0, release |-> 0]
    ELSE [sync |-> 0, reload |-> 0, release |-> 0]

\* setTimeout calls of one handler (lines 278, 284)
TimeoutsOf(h) ==
    IF h = "handleLabsGoogle"
    THEN [sync |-> 1, reload |-> 1, release |-> 0]
    ELSE [sync |-> 0, reload |-> 0, release |-> 0]

NoTimers == [sync |-> 0, reload |-> 0, release |-> 0]

AddTimers(t, u) ==
    [sync |-> t.sync + u.sync, reload |-> t.reload + u.reload,
     release |-> t.release + u.release]

RECURSIVE AllIntervals(_)
AllIntervals(hs) ==
    IF hs = <<>> THEN <<>> ELSE IntervalsOf(Head(hs)) \o AllIntervals(Tail(hs))

RECURSIVE AllTimeouts(_)
AllTimeouts(hs) ==
    IF hs = <<>> THEN NoTimers ELSE AddTimers(TimeoutsOf(Head(hs)), AllTimeouts(Tail(hs)))

----------------------------------------------------------------------------
(* The DOM as the probes see it *)
NoDom == [submit |-> FALSE, button |-> FALSE, accountItem |-> FALSE,
          passwordInput |-> FALSE, nextButton |-> FALSE, visible |-> FALSE,
          inner |-> FALSE]

\* document.querySelector finds: submit  form button[type="submit"] (172),
\* button  button.button (173), accountItem (198), passwordInput (206),
\* nextButton (207); visible: offsetParent !== null (211); inner: #passwordNext
\* holds a button (235).  An element that is not in the document is not rendered.
DomSet(h, p) ==
    IF PageOf(h, p) = "signin"
    THEN {[NoDom EXCEPT !.submit = s, !.button = b] : s \in BOOLEAN, b \in BOOLEAN}
    ELSE IF PageOf(h, p) = "accounts"
    THEN {d \in [submit : {FALSE}, button : {FALSE}, accountItem : BOOLEAN,
                 passwordInput : BOOLEAN, nextButton : BOOLEAN, visible : BOOLEAN,
                 inner : BOOLEAN] :
            /\ d.visible => d.passwordInput
            /\ d.inner => d.nextButton}
    ELSE {NoDom}

NoResp == [isNull |-> TRUE, cookies |-> <<>>, error |-> FALSE]
NoHist == [syncs |-> 0, warned |-> FALSE, released |-> FALSE]
NoAnswer == [kind |-> "none", status |-> 0, body |-> "none", email |-> "none"]

\* a freshly loaded page at location l: no script state, DOM d, field value f
Fresh(l, d, f) ==
    /\ host' = l.host
    /\ path' = l.path
    /\ scriptRan' = FALSE
    /\ handlers' = <<>>
    /\ intervals' = <<>>
    /\ timers' = NoTimers
    /\ isTyping' = FALSE
    /\ typers' = <<>>
    /\ dom' = d
    /\ field' = f
    /\ cookieReq' = 0
    /\ resp' = NoResp
    /\ posts' = <<>>
    /\ xhr' = 0
    /\ answer' = NoAnswer
    /\ submitClicks' = 0
    /\ hist' = NoHist
    /\ eff' = <<>>

Init ==
    /\ \E l \in Locations :
         /\ host = l.host
         /\ path = l.path
    /\ dom = NoDom
    /\ field = <<>>
    /\ scriptRan = FALSE
    /\ handlers = <<>>
    /\ intervals = <<>>
    /\ timers = NoTimers
    /\ isTyping = FALSE
    /\ typers = <<>>
    /\ cred \in CredSet
    /\ cookieReq = 0
    /\ resp = NoResp
    /\ posts = <<>>
    /\ xhr = 0
    /\ answer = NoAnswer
    /\ submitClicks = 0
    /\ hist = NoHist
    /\ op = "load"
    /\ eff = <<>>

----------------------------------------------------------------------------
(* The environment *)

\* the tab navigates (a click's form submit, a redirect, the user): the page and
\* everything the script held in memory are gone.  The new document starts
\* without the probed elements; its markup arrives by DomChange and FieldEdit,
\* before or after the script runs
Navigate ==
    /\ \E l \in Locations : Fresh(l, NoDom, <<>>)
    /\ op' = "load"
    /\ UNCHANGED cred

\* the page rewrites its markup: what one probe finds changes (a larger rewrite
\* is several of these; every DOM of the page is reached either way)
DomChange ==
    /\ \E d \in DomSet(host, path) :
         /\ Cardinality({k \in DOMAIN d : d[k] # dom[k]}) = 1
         /\ dom' = d
    /\ op' = "page"
    /\ eff' = <<>>
    /\ UNCHANGED <<host, path, scriptRan, handlers, intervals, timers, isTyping,
                   typers, field, cred, cookieReq, resp, posts, xhr, answer,
                   submitClicks,
                     hist>>

\* the page or the user changes the password field's value
FieldEdit ==
    /\ PageOf(host, path) = "accounts"
    /\ \E v \in EditSet : v # field /\ field' = v
    /\ typers' = [k \in DOMAIN typers |-> [typers[k] EXCEPT !.clean = FALSE]]
    /\ op' = "page"
    /\ eff' = <<>>
    /\ UNCHANGED <<host, path, scriptRan, handlers, intervals, timers, isTyping,
                   dom, cred, cookieReq, resp, posts, xhr, answer, submitClicks,
                     hist>>

(* Effects: what a callback does to the world, as <<kind, detail>> *)
CountKind(effs, kind) == Cardinality({k \in DOMAIN effs : effs[k][1] = kind})

Has(effs, kind) == \E k \in DOMAIN effs : effs[k][1] = kind

RECURSIVE Details(_, _)
\* the details of the effects of one kind, in order
Details(effs, kind) ==
    IF effs = <<>> THEN <<>>
    ELSE (IF Head(effs)[1] = kind THEN <<Head(effs)[2]>> ELSE <<>>)
           \o Details(Tail(effs), kind)


\* what prompt() returns, line 133: the text entered, or null when cancelled
PromptAnswers ==
    {[isNull |-> FALSE, text |-> c] : c \in CredSet} \cup {[isNull |-> TRUE, text |-> <<>>]}

\* menu command of lines 131-138: the stored password is read as the prompt's
\* default; an answer other than null is stored
SetPassword(a) ==
    <<<<"getValue", "GOOGLE_PASSWORD">>, <<"prompt", "oldPwd">>>>
      \o (IF a.isNull THEN <<>>
          ELSE <<<<"store", "GOOGLE_PASSWORD">>, <<"alert", "saved">>>>)

\* menu command of lines 141-146
ClearPassword(confirmed) ==
    <<<<"confirm", "clear">>>>
      \o (IF confirmed THEN <<<<"store", "GOOGLE_PASSWORD">>, <<"alert", "cleared">>>>
          ELSE <<>>)

\* the user picks "set password" in the script manager's menu
MenuSetPassword ==
    /\ scriptRan
    /\ \E a \in PromptAnswers :
         /\ eff' = SetPassword(a)
         /\ cred' = IF Has(SetPassword(a), "store") THEN a.text ELSE cred
    /\ op' = "menuSet"
    /\ UNCHANGED <<host, path, scriptRan, handlers, intervals, timers, isTyping,
                   typers, dom, field, cookieReq, resp, posts, xhr, answer,
                   submitClicks, hist>>

\* the user picks "clear password" in the script manager's menu
MenuClearPassword ==
    /\ scriptRan
    /\ \E confirmed \in BOOLEAN :
         /\ eff' = ClearPassword(confirmed)
         /\ cred' = IF Has(ClearPassword(confirmed), "store") THEN <<>> ELSE cred
    /\ op' = "menuClear"
    /\ UNCHANGED <<host, path, scriptRan, handlers, intervals, timers, isTyping,
                   typers, dom, field, cookieReq, resp, posts, xhr, answer,
                   submitClicks, hist>>

----------------------------------------------------------------------------
(* The script body, lines 114-161: registers the menu and dispatches *)
RunScript ==
    /\ ~scriptRan
    /\ scriptRan' = TRUE
    /\ handlers' = handlers \o Dispatch(host, path)
    /\ intervals' = intervals \o AllIntervals(Dispatch(host, path))
    /\ timers' = AddTimers(timers, AllTimeouts(Dispatch(host, path)))
    /\ op' = "run"
    /\ eff' = [k \in 1..Len(Dispatch(host, path)) |-> <<"call", Dispatch(host, path)[k]>>]
    /\ UNCHANGED <<host, path, isTyping, typers, dom, field, cred, cookieReq, resp,
                   posts, xhr, answer, submitClicks,
                     hist>>

----------------------------------------------------------------------------
(* Scene 1, lines 165-181: the interstitial poll *)

\* CheckBtn without the clearInterval of line 177
CheckBtnNoClear(d) ==
    IF d.submit \/ d.button
    THEN <<<<"log", "found button">>,
           <<"click", IF d.submit THEN "submit" ELSE "button">>>>
    ELSE <<>>

\* one tick of checkBtn (lines 168-180) on DOM d
CheckBtn(d) ==
    IF d.submit \/ d.button
    THEN <<<<"log", "found button">>,
           <<"clearInterval", "checkBtn">>,
           <<"click", IF d.submit THEN "submit" ELSE "button">>>>
    ELSE <<>>

\* ClearInterval that cancels nothing (a stale handle)
ClearIntervalStale(ints, i) ==
    [ints EXCEPT ![i].clears = @ + 1]

\* clearInterval(handle), line 177
ClearInterval(ints, i) ==
    [ints EXCEPT ![i].active = FALSE, ![i].clears = @ + 1]

SigninTick ==
    \E i \in DOMAIN intervals :
      /\ intervals[i].kind = "checkBtn"
      /\ intervals[i].active
      /\ submitClicks < MaxClicks
      /\ eff' = CheckBtn(dom)
      /\ intervals' = IF Has(CheckBtn(dom), "clearInterval")
                      THEN ClearInterval(intervals, i)
                      ELSE intervals
      /\ submitClicks' = submitClicks + CountKind(CheckBtn(dom), "click")
      /\ op' = "signinTick"
      /\ UNCHANGED <<host, path, scriptRan, handlers, timers, isTyping, typers, dom,
                     field, cred, cookieReq, resp, posts, xhr, answer,
                     hist>>

----------------------------------------------------------------------------
(* Scene 2, lines 185-268: the identity provider's page *)

\* PasswordPrompt without the offsetParent test of line 211
PasswordPromptNoVisible(d, f, c) ==
    IF d.passwordInput /\ d.nextButton
    THEN IF f = <<>>
         THEN IF c = <<>>
              THEN <<<<"getValue", "GOOGLE_PASSWORD">>, <<"warn", "no password">>>>
              ELSE <<<<"getValue", "GOOGLE_PASSWORD">>, <<"lock", "isTyping">>,
                     <<"log", "typing">>, <<"focus", "passwordInput">>,
                     <<"sleep", "settle">>>>
         ELSE <<>>
    ELSE <<>>

\* PasswordPrompt without the test of line 214
PasswordPromptNoCheck(d, f, c) ==
    IF d.passwordInput /\ d.nextButton
    THEN IF d.visible /\ f = <<>>
         THEN <<<<"getValue", "GOOGLE_PASSWORD">>, <<"lock", "isTyping">>,
                <<"log", "typing">>, <<"focus", "passwordInput">>,
                <<"sleep", "settle">>>>
         ELSE <<>>
    ELSE <<>>

\* sub-scene B, lines 206-241, up to the first await; c: the stored credential
PasswordPrompt(d, f, c) ==
    IF d.passwordInput /\ d.nextButton
    THEN IF d.visible /\ f = <<>>
         THEN IF c = <<>>
              THEN <<<<"getValue", "GOOGLE_PASSWORD">>, <<"warn", "no password">>>>
              ELSE <<<<"getValue", "GOOGLE_PASSWORD">>, <<"lock", "isTyping">>,
                     <<"log", "typing">>, <<"focus", "passwordInput">>,
                     <<"sleep", "settle">>>>
         ELSE <<>>
    ELSE <<>>

\* AttemptUnlocked without the return of line 202
AttemptUnlockedFallThrough(d, f, c) ==
    (IF d.accountItem
     THEN <<<<"log", "account list">>, <<"click", "accountItem">>>>
     ELSE <<>>) \o PasswordPrompt(d, f, c)

\* lines 197-241: sub-scene A, then sub-scene B
AttemptUnlocked(d, f, c) ==
    IF d.accountItem
    THEN <<<<"log", "account list">>, <<"click", "accountItem">>>>
    ELSE PasswordPrompt(d, f, c)

\* AttemptLogin with the lock test made after the account chooser
AttemptLoginLateGuard(locked, d, f, c) ==
    IF d.accountItem
    THEN <<<<"log", "account list">>, <<"click", "accountItem">>>>
    ELSE IF locked THEN <<>> ELSE PasswordPrompt(d, f, c)

\* AttemptLogin without the lock test of line 195
AttemptLoginNoGuard(locked, d, f, c) == AttemptUnlocked(d, f, c)

\* tryAttemptLogin up to its first await, lines 194-225
AttemptLogin(locked, d, f, c) ==
    IF locked THEN <<>> ELSE AttemptUnlocked(d, f, c)

\* the invocation suspended at await sleep(500), line 225; slept: the keystroke
\* delays it has asked for so far, summed
NewTyper(c) ==
    [pc |-> "settle", text |-> c, i |-> 0, cur |-> <<>>, ev |-> <<>>, clean |-> TRUE,
     slept |-> 0]

LoginTick ==
    \E i \in DOMAIN intervals :
      /\ intervals[i].kind = "loginPoll"
      /\ intervals[i].active
      /\ Len(typers) < MaxTypers
      /\ LET effs == AttemptLogin(isTyping, dom, field, cred) IN
           /\ eff' = effs
           /\ isTyping' = (isTyping \/ Has(effs, "lock"))
           /\ typers' = IF Has(effs, "sleep") THEN Append(typers, NewTyper(cred))
                        ELSE typers
           /\ hist' = [hist EXCEPT !.warned = @ \/ Has(effs, "warn")]
      /\ op' = "loginTick"
      /\ UNCHANGED <<host, path, scriptRan, handlers, intervals, timers, dom, field,
                     cred, cookieReq, resp, posts, xhr, answer, submitClicks>>

\* NextVal that drops what the field held
NextValCharOnly(currentVal, char) == <<char>>

\* line 258
NextVal(currentVal, char) == currentVal \o <<char>>

\* LoopHead with the loop test i < text.length - 1
LoopHeadShort(t, f) ==
    IF t.i < Len(t.text)
    THEN [t EXCEPT !.pc = "key", !.cur = f]
    ELSE [t EXCEPT !.pc = "jitter", !.ev = Append(@, [e |-> "change", v |-> f])]

\* typeStringSimulate at the head of its loop, lines 249-255 and 267, the field
\* holding f: reads currentVal and waits, or leaves the loop, dispatches change
\* and, back in tryAttemptLogin, waits at line 232
LoopHead(t, f) ==
    IF t.i <= Len(t.text)
    THEN [t EXCEPT !.pc = "key", !.cur = f]
    ELSE [t EXCEPT !.pc = "jitter", !.ev = Append(@, [e |-> "change", v |-> f])]

\* KeyDelay without the base of 50
KeyDelayNoBase(r) == r

\* line 254, r being Math.floor(Math.random() * 100)
KeyDelay(r) == r + 50

\* await sleep(delay), line 255: a typer that waits for a keystroke asks for
\* KeyDelay(r) more
Sleep(t, r) ==
    IF t.pc = "key" THEN [t EXCEPT !.slept = @ + KeyDelay(r)] ELSE t

LoopEffects(t) ==
    IF t.pc = "key" THEN <<<<"sleep", "key">>>>
    ELSE <<<<"dispatch", "change">>, <<"log", "typed">>, <<"sleep", "jitter">>>>

\* the settle delay is over: typeStringSimulate is called, lines 228, 245-255
SettleDone ==
    \E k \in DOMAIN typers :
      /\ typers[k].pc = "settle"
      /\ LET t == LoopHead([typers[k] EXCEPT !.i = 1], field) IN
           /\ \E r \in RandomDraws : typers' = [typers EXCEPT ![k] = Sleep(t, r)]
           /\ eff' = LoopEffects(t)
      /\ op' = "settleDone"
      /\ UNCHANGED <<host, path, scriptRan, handlers, intervals, timers, isTyping,
                     dom, field, cred, cookieReq, resp, posts, xhr, answer,
                     submitClicks,
                     hist>>

\* a keystroke delay is over: lines 257-262, then the loop head again
KeyDone ==
    \E k \in DOMAIN typers :
      /\ typers[k].pc = "key"
      /\ LET nextVal == NextVal(typers[k].cur, typers[k].text[typers[k].i])
             t == LoopHead([typers[k] EXCEPT
                              !.i = @ + 1,
                              !.ev = Append(@, [e |-> "input", v |-> nextVal])],
                           nextVal)
         IN
           /\ field' = nextVal
           /\ \E r \in RandomDraws : typers' = [typers EXCEPT ![k] = Sleep(t, r)]
           /\ eff' = <<<<"setValue", "field">>, <<"dispatch", "input">>>> \o LoopEffects(t)
      /\ op' = "keyDone"
      /\ UNCHANGED <<host, path, scriptRan, handlers, intervals, timers, isTyping,
                     dom, cred, cookieReq, resp, posts, xhr, answer, submitClicks,
                     hist>>

RemoveAt(s, k) == SubSeq(s, 1, k - 1) \o SubSeq(s, k + 1, Len(s))

\* ClickNext that clears isTyping at once and sets the timer as well
ClickNextEarlyUnlock(d) ==
    <<<<"click", IF d.inner THEN "nextInner" ELSE "nextButton">>,
      <<"unlock", "isTyping">>,
      <<"setTimeout", "release">>>>

\* ClickNext without the setTimeout of line 239
ClickNextNoRelease(d) ==
    <<<<"click", IF d.inner THEN "nextInner" ELSE "nextButton">>>>

\* lines 235-239: click the next control, or the button inside it, and set the
\* timer that clears isTyping after 5000 ms
ClickNext(d) ==
    <<<<"click", IF d.inner THEN "nextInner" ELSE "nextButton">>,
      <<"setTimeout", "release">>>>

\* the post-type delay is over: lines 235-239
JitterDone ==
    \E k \in DOMAIN typers :
      /\ typers[k].pc = "jitter"
      /\ typers' = RemoveAt(typers, k)
      /\ timers' = [timers EXCEPT !.release = @ + CountKind(ClickNext(dom), "setTimeout")]
      /\ isTyping' = (isTyping /\ ~Has(ClickNext(dom), "unlock"))
      /\ eff' = ClickNext(dom)
      /\ op' = "jitterDone"
      /\ UNCHANGED <<host, path, scriptRan, handlers, intervals, dom, field,
                     cred, cookieReq, resp, posts, xhr, answer, submitClicks,
                     hist>>

\* the timer of line 239 fires
ReleaseFire ==
    /\ timers.release > 0
    /\ timers' = [timers EXCEPT !.release = @ - 1]
    /\ isTyping' = FALSE
    /\ hist' = [hist EXCEPT !.released = TRUE]
    /\ op' = "release"
    /\ eff' = <<<<"unlock", "isTyping">>>>
    /\ UNCHANGED <<host, path, scriptRan, handlers, intervals, typers, dom, field,
                   cred, cookieReq, resp, posts, xhr, answer, submitClicks>>

----------------------------------------------------------------------------
(* Scene 3, lines 276-324: the business page *)

\* SendTokenToServer whose request body varies with the stored password
SendTokenToServerLeaky(st) ==
    <<<<"log", "uploading">>, <<"POST", IF cred = <<>> THEN st ELSE "tok_2">>>>

\* sendTokenToServer up to the request, lines 303-312
SendTokenToServer(st) ==
    <<<<"log", "uploading">>, <<"POST", st>>>>

\* FirstCookie taking the last cookie of the list
LastCookie(cookies) == cookies[Len(cookies)]

\* line 295
FirstCookie(cookies) == cookies[1]

\* OnCookies without the return of line 292
OnCookiesNoReturn(r) ==
    (IF r.error THEN <<<<"error", "cookie read failed">>>> ELSE <<>>)
      \o (IF ~r.isNull /\ Len(r.cookies) > 0
          THEN SendTokenToServer(FirstCookie(r.cookies))
          ELSE <<<<"log", "no session token">>>>)

\* the callback of GM_cookie.list, lines 291-300
OnCookies(r) ==
    IF r.error
    THEN <<<<"error", "cookie read failed">>>>
    ELSE IF ~r.isNull /\ Len(r.cookies) > 0
         THEN SendTokenToServer(FirstCookie(r.cookies))
         ELSE <<<<"log", "no session token">>>>

\* OnLoad that posts again when the answer is not a success
OnLoadRetry(a) ==
    IF a.status = 200 /\ a.body = "ok"
    THEN <<<<"log", "success", a.email>>>>
    ELSE <<<<"POST", "tok_1">>>>

\* onload, lines 313-322; no onerror is given
OnLoad(a) ==
    IF a.status = 200
    THEN IF a.body = "ok"
         THEN <<<<"log", "success", a.email>>>>
         ELSE <<>>
    ELSE <<>>

\* the request's options give no onerror (lines 305-323): a transport failure
\* runs no code of the script
OnError(a) == <<>>

\* the timer of line 278 fires: syncToken, lines 290-291
SyncFire ==
    /\ timers.sync > 0
    /\ hist.syncs < MaxSyncs
    /\ timers' = [timers EXCEPT !.sync = @ - 1]
    /\ cookieReq' = cookieReq + 1
    /\ hist' = [hist EXCEPT !.syncs = @ + 1]
    /\ op' = "syncToken"
    /\ eff' = <<<<"GM_cookie.list", "session-token">>>>
    /\ UNCHANGED <<host, path, scriptRan, handlers, intervals, isTyping, typers, dom,
                   field, cred, resp, posts, xhr, answer, submitClicks>>

CookieCallback ==
    \E r \in CookieAnswers :
      /\ cookieReq > 0
      /\ Len(posts) < MaxPosts
      /\ cookieReq' = cookieReq - 1
      /\ resp' = r
      /\ eff' = OnCookies(r)
      /\ posts' = posts \o Details(OnCookies(r), "POST")
      /\ xhr' = xhr + CountKind(OnCookies(r), "POST")
      /\ op' = "cookieCallback"
      /\ UNCHANGED <<host, path, scriptRan, handlers, intervals, timers, isTyping,
                     typers, dom, field, cred, answer, submitClicks,
                     hist>>

\* the request of line 305 ends
XhrAnswer ==
    \E a \in Answers :
      /\ xhr > 0
      /\ Len(posts) <= MaxPosts
      /\ LET effs == IF a.kind = "load" THEN OnLoad(a) ELSE OnError(a) IN
           /\ eff' = effs
           /\ posts' = posts \o Details(effs, "POST")
           /\ xhr' = (xhr - 1) + CountKind(effs, "POST")
      /\ answer' = a
      /\ op' = "xhrDone"
      /\ UNCHANGED <<host, path, scriptRan, handlers, intervals, timers, isTyping,
                     typers, dom, field, cred, cookieReq, resp, submitClicks,
                     hist>>

\* the timer of line 284 fires: window.location.reload().  It was set together
\* with the sync timer and is due after it when ReloadInterval is the longer
ReloadFire ==
    /\ timers.reload > 0
    /\ timers.sync = 0 \/ ReloadInterval < SyncDelay
    /\ Fresh([host |-> host, path |-> path], NoDom, <<>>)
    /\ op' = "reload"
    /\ UNCHANGED cred

----------------------------------------------------------------------------
Next ==
    \/ Navigate
    \/ DomChange
    \/ FieldEdit
    \/ MenuSetPassword
    \/ MenuClearPassword
    \/ RunScript
    \/ SigninTick
    \/ LoginTick
    \/ SettleDone
    \/ KeyDone
    \/ JitterDone
    \/ ReleaseFire
    \/ SyncFire
    \/ CookieCallback
    \/ XhrAnswer
    \/ ReloadFire

Spec == Init /\ [][Next]_vars

\* The script's own steps are taken when they can be: a loaded page runs the
\* script, and a timer that is due fires, as long as the page lives.  The
\* environment (navigation, markup, answers, the user) owes nothing.
Fairness ==
    /\ WF_vars(RunScript)
    /\ WF_vars(SettleDone)
    /\ WF_vars(KeyDone)
    /\ WF_vars(JitterDone)
    /\ WF_vars(ReleaseFire)
    /\ WF_vars(SyncFire)
    /\ WF_vars(ReloadFire)

FairSpec == Spec /\ Fairness

----------------------------------------------------------------------------
(* Properties *)

ActivePolls == {i \in DOMAIN intervals : intervals[i].active}

\* the probes of a tick would start a typing sequence were the lock free
PromptReady ==
    /\ ~dom.accountItem
    /\ dom.passwordInput /\ dom.nextButton /\ dom.visible
    /\ field = <<>>
    /\ cred # <<>>

\* C1: at most one typing sequence is in progress at any instant, the lock is
\* held while one is, and a tick that fires while isTyping is true starts none
\* and does nothing.
C1_OneTypingSequence ==
    /\ [](Len(typers) <= 1 /\ (typers # <<>> => isTyping))
    /\ [][(op' = "loginTick" /\ isTyping) =>
            (typers' = typers /\ eff' = <<>> /\ isTyping')]_vars

\* a tick has just been skipped in the middle of the keystrokes, the password
\* prompt being visible and empty
C1_Witness ==
    /\ op = "loginTick" /\ eff = <<>>
    /\ isTyping
    /\ Len(typers) = 1 /\ typers[1].pc = "key"
    /\ PromptReady

\* C2: on the interstitial page the first tick that finds a submit control
\* cancels the poll and clicks the control once; no tick runs after it and no
\* second click is issued; a tick that finds no control clicks nothing and
\* leaves the poll running.
C2_InterstitialOneClick ==
    /\ [](submitClicks <= 1)
    /\ [][op' = "signinTick" =>
            /\ submitClicks = 0
            /\ ActivePolls # {}
            /\ IF dom.submit \/ dom.button
               THEN /\ submitClicks' = 1
                    /\ CountKind(eff', "click") = 1
                    /\ ActivePolls' = {}
               ELSE /\ submitClicks' = 0
                    /\ ~Has(eff', "click")
                    /\ intervals' = intervals]_vars

\* the control was found through the fallback selector and clicked, the poll is off
C2_Witness ==
    /\ op = "signinTick"
    /\ submitClicks = 1
    /\ Details(eff, "click") = <<"button">>
    /\ ActivePolls = {}

\* C3: a tick that finds an account item (the lock being free) clicks it exactly
\* once and runs no password-entry logic: no credential read, no lock, no focus,
\* no typing, no click on the next control.
C3_AccountClickOnly ==
    [][(op' = "loginTick" /\ ((~isTyping /\ dom.accountItem) \/ Has(eff', "click"))) =>
         /\ Details(eff', "click") = <<"accountItem">>
         /\ ~Has(eff', "getValue") /\ ~Has(eff', "lock")
         /\ ~Has(eff', "focus") /\ ~Has(eff', "sleep")
         /\ ~isTyping' /\ typers' = typers /\ field' = field
         /\ timers' = timers]_vars

\* the account item was clicked on a tick that also saw a ready password prompt
C3_Witness ==
    /\ op = "loginTick"
    /\ Details(eff, "click") = <<"accountItem">>
    /\ dom.accountItem
    /\ dom.passwordInput /\ dom.nextButton /\ dom.visible /\ field = <<>> /\ cred # <<>>

\* C4: a cookie-store answer without error and with at least one cookie makes
\* syncToken call sendTokenToServer exactly once, with the first cookie's value.
C4_FirstCookieSentOnce ==
    (op = "cookieCallback" /\ ~resp.error /\ ~resp.isNull /\ Len(resp.cookies) > 0) =>
        /\ Details(eff, "POST") = <<resp.cookies[1]>>
        /\ posts = <<resp.cookies[1]>>
        /\ xhr = 1

\* two cookies with different values were listed and the first was posted
C4_Witness ==
    /\ op = "cookieCallback" /\ ~resp.error /\ ~resp.isNull
    /\ Len(resp.cookies) = 2 /\ resp.cookies[1] # resp.cookies[2]
    /\ posts = <<resp.cookies[1]>>

\* the outcomes a run of the cookie callback shows
Outcomes(effs) ==
    {o \in {"token", "absent", "error"} :
        \/ o = "token" /\ Has(effs, "POST")
        \/ o = "absent" /\ \E k \in DOMAIN effs :
                               effs[k][1] = "log" /\ effs[k][2] = "no session token"
        \/ o = "error" /\ Has(effs, "error")}

\* C5: with no cookie (empty or null list) or a store error the sync client is
\* not invoked and nothing is posted; every attempt ends in exactly one of
\* token, absent, error, and an error wins over a list supplied with it.
C5_NoTokenNoPost ==
    op = "cookieCallback" =>
        /\ Cardinality(Outcomes(eff)) = 1
        /\ resp.error => Outcomes(eff) = {"error"}
        /\ (resp.error \/ resp.isNull \/ resp.cookies = <<>>) =>
              (~Has(eff, "POST") /\ posts = <<>> /\ xhr = 0)
        /\ (~resp.error /\ (resp.isNull \/ resp.cookies = <<>>)) =>
              Outcomes(eff) = {"absent"}

\* the store reported an error together with a list of cookies
C5_Witness ==
    /\ op = "cookieCallback"
    /\ resp.error /\ Len(resp.cookies) > 0
    /\ posts = <<>>

Prefix(str, k) == SubSeq(str, 1, k)

\* the events typeStringSimulate has dispatched so far are the first n input
\* events of typing text into an empty field
InputsSoFar(t, n) ==
    \A k \in 1..n : t.ev[k] = [e |-> "input", v |-> Prefix(t.text, k)]

\* C6: typing a string of length N into an empty field that nothing else
\* modifies dispatches N input events and then one change event; after the k-th
\* input event the field holds the first k characters, and at the end the
\* whole string.
C6_TypingEvents ==
    \A j \in DOMAIN typers :
      LET t == typers[j] IN
        t.clean =>
          /\ t.pc = "settle" => t.ev = <<>>
          /\ t.pc = "key" =>
                /\ Len(t.ev) = t.i - 1
                /\ InputsSoFar(t, t.i - 1)
                /\ field = Prefix(t.text, t.i - 1)
          /\ t.pc = "jitter" =>
                /\ Len(t.ev) = Len(t.text) + 1
                /\ InputsSoFar(t, Len(t.text))
                /\ t.ev[Len(t.text) + 1] = [e |-> "change", v |-> t.text]
                /\ field = t.text

\* a two-character credential has been typed in full, undisturbed
C6_Witness ==
    \E j \in DOMAIN typers :
      /\ typers[j].pc = "jitter" /\ typers[j].clean
      /\ Len(typers[j].text) = 2
      /\ field = typers[j].text

\* C7: every answer to the sync POST leaves a log entry matching it: a success
\* entry naming the email for HTTP 200 with success true, an error entry for
\* success false, an unparseable body, a non-200 status and a transport failure.
C7_EveryAnswerLogged ==
    op = "xhrDone" =>
        IF answer.kind = "load" /\ answer.status = 200 /\ answer.body = "ok"
        THEN \E k \in DOMAIN eff :
               eff[k][1] = "log" /\ eff[k][2] = "success" /\ eff[k][3] = answer.email
        ELSE Has(eff, "error")

\* C8: a page issues at most one POST and never retries: handling an answer, of
\* whatever kind, posts nothing, and a POST is only ever the first of its page,
\* issued by the cookie callback.
C8_NoRetry ==
    /\ [](Len(posts) <= 1 /\ xhr <= 1 /\ xhr <= Len(posts))
    /\ [][op' = "xhrDone" =>
            (posts' = posts /\ ~Has(eff', "POST") /\ xhr' = 0 /\ cookieReq' = 0
             /\ timers'.sync = 0)]_vars
    /\ [][(posts' # posts /\ posts' # <<>>) =>
            (op' = "cookieCallback" /\ posts = <<>>)]_vars

\* a failed POST has been answered and nothing more is under way
C8_Witness ==
    /\ op = "xhrDone"
    /\ answer.kind = "load" /\ answer.status = 500
    /\ Len(posts) = 1 /\ xhr = 0 /\ cookieReq = 0 /\ timers.sync = 0

\* C9: in every state of a page at most one poll timer is active and at most
\* one typing sequence holds the lock; the dispatcher has started at most one
\* handler, once, and a login handler has started exactly one interval.
C9_OnePollOneLock ==
    /\ Cardinality(ActivePolls) <= 1
    /\ Len(typers) <= 1
    /\ Len(handlers) <= 1
    /\ ~scriptRan => (handlers = <<>> /\ intervals = <<>>)
    /\ scriptRan =>
         /\ Len(handlers) = 1
         /\ handlers[1] \in {"handleLabsAuthPage", "handleAccountsGoogle"} =>
               Len(intervals) = 1
         /\ handlers[1] = "handleLabsAuthPage" => intervals[1].kind = "checkBtn"
         /\ handlers[1] = "handleAccountsGoogle" => intervals[1].kind = "loginPoll"
         /\ handlers[1] = "handleLabsGoogle" => intervals = <<>>

\* the login handler runs its one poll while a typing sequence holds the lock
C9_Witness ==
    /\ handlers = <<"handleAccountsGoogle">>
    /\ Cardinality(ActivePolls) = 1
    /\ isTyping /\ Len(typers) = 1

\* the tick taken last met the target of the poll that fired it
TargetMet ==
    \/ op = "signinTick" /\ Has(eff, "click")
    \/ op = "loginTick" /\ (Has(eff, "click") \/ Has(eff, "lock"))
    \/ op = "jitterDone" /\ Has(eff, "click")

\* C10 as stated: every poll a handler starts, the identity provider's too, is
\* cancelled on the tick at which its target condition is satisfied.
C10_EveryPollCancelled ==
    TargetMet => ActivePolls = {}

\* C10 amended: the interstitial poll is cancelled exactly once, on the tick that
\* finds its control, and fires no tick after that; the identity provider's poll
\* is never cancelled by the script and stays active for the page's lifetime.
C10_OnlyInterstitialCancelled ==
    /\ [](\A i \in DOMAIN intervals :
            /\ intervals[i].kind = "checkBtn" =>
                 /\ intervals[i].clears <= 1
                 /\ intervals[i].active <=> intervals[i].clears = 0
                 /\ intervals[i].clears = submitClicks
            /\ intervals[i].kind = "loginPoll" =>
                 (intervals[i].active /\ intervals[i].clears = 0))
    /\ [][op' = "signinTick" =>
            /\ \A i \in DOMAIN intervals : intervals[i].active
            /\ Has(eff', "click") <=> ActivePolls' = {}]_vars

\* the identity provider's poll ticked after a password was submitted
C10_Witness ==
    /\ op = "loginTick"
    /\ timers.release = 1
    /\ \E i \in DOMAIN intervals :
         intervals[i].kind = "loginPoll" /\ intervals[i].active

\* C13: once the lock is taken it is released again: the sequence runs to its
\* end, sets the release timer, and the timer clears isTyping (a page that is
\* unloaded first loses the lock with everything else); the lock is cleared by
\* nothing but that timer or the end of the page.
C13_LockReleased ==
    /\ isTyping ~> ~isTyping
    /\ [][(isTyping /\ ~isTyping') => op' \in {"release", "load"}]_vars
    /\ [][op' = "release" => (isTyping /\ ~isTyping' /\ typers = <<>>)]_vars

\* the release timer has just cleared the lock, the page still there
C13_Witness ==
    /\ op = "release"
    /\ ~isTyping
    /\ scriptRan

\* the target application's host with a path other than the interstitial's
BusinessPage == Includes(host, LabsHost) /\ ~Includes(path, SigninMarker)

\* from some point on the tab stays on a business page that nothing but the
\* script's own reload replaces
StaysOnBusiness == <>[](BusinessPage /\ op # "load")

\* C11: on a business page the script run sets exactly one sync timer and one
\* reload timer; each fires at most once per page; the reload timer stays
\* pending whatever the sync does and its firing starts the page afresh; so a
\* tab left on a business page reloads and syncs again and again, with at most
\* one syncToken call per page.
C11_KeepAlive ==
    /\ [](BusinessPage =>
            /\ hist.syncs <= 1
            /\ scriptRan => (timers.reload = 1 /\ timers.sync + hist.syncs = 1)
            /\ ~scriptRan => (timers = NoTimers /\ hist.syncs = 0)
            /\ cookieReq + Len(posts) <= 1)
    /\ [][(op' = "run" /\ BusinessPage) =>
            (timers'.sync = 1 /\ timers'.reload = 1)]_vars
    /\ [][op' = "reload" =>
            /\ BusinessPage /\ timers.reload = 1 /\ hist.syncs = 1
            /\ host' = host /\ path' = path
            /\ ~scriptRan' /\ timers' = NoTimers /\ hist' = NoHist]_vars
    /\ StaysOnBusiness => ([]<>(op = "reload") /\ []<>(op = "syncToken"))

\* the sync of this page has failed at the backend and the reload is still due
C11_Witness ==
    /\ BusinessPage
    /\ op = "xhrDone" /\ answer.status = 500
    /\ hist.syncs = 1 /\ timers.sync = 0
    /\ timers.reload = 1

\* the routine the first matching route of lines 152-161 names
RouteOf ==
    IF Includes(host, LabsHost) /\ Includes(path, SigninMarker) THEN "handleLabsAuthPage"
    ELSE IF Includes(host, LabsHost) THEN "handleLabsGoogle"
    ELSE IF Includes(host, AccountsHost) THEN "handleAccountsGoogle"
    ELSE "none"

\* C12: a script run calls the one routine of the first matching route and
\* no other; a business page never has a login poll, a typing sequence or the
\* lock; an interstitial or identity-provider page never has a sync or reload
\* timer, a cookie request or a POST.
C12_RouteExclusive ==
    /\ [](/\ \A k \in DOMAIN handlers : handlers[k] = RouteOf
          /\ RouteOf = "handleLabsGoogle" =>
                (intervals = <<>> /\ typers = <<>> /\ ~isTyping
                 /\ timers.release = 0 /\ submitClicks = 0)
          /\ RouteOf # "handleLabsGoogle" =>
                (timers.sync = 0 /\ timers.reload = 0 /\ hist.syncs = 0
                 /\ cookieReq = 0 /\ posts = <<>> /\ xhr = 0)
          /\ RouteOf = "handleLabsAuthPage" =>
                (typers = <<>> /\ ~isTyping /\ timers = NoTimers
                 /\ \A k \in DOMAIN intervals : intervals[k].kind = "checkBtn")
          /\ RouteOf = "handleAccountsGoogle" =>
                (submitClicks = 0
                 /\ \A k \in DOMAIN intervals : intervals[k].kind = "loginPoll"))
    /\ [][op' = "run" => eff' = <<<<"call", RouteOf>>>>]_vars
    /\ [][op' \in {"syncToken", "cookieCallback", "xhrDone", "reload"} =>
            RouteOf = "handleLabsGoogle"]_vars
    /\ [][op' = "signinTick" => RouteOf = "handleLabsAuthPage"]_vars
    /\ [][op' \in {"loginTick", "settleDone", "keyDone", "jitterDone", "release"} =>
            RouteOf = "handleAccountsGoogle"]_vars

\* the identity provider's own sign-in path: the login poll runs there, not
\* the interstitial's
C12_Witness ==
    /\ Includes(host, AccountsHost)
    /\ Includes(path, SigninMarker)
    /\ op = "loginTick"
    /\ handlers = <<"handleAccountsGoogle">>

\* the events a sequence has dispatched: n input events, then nothing else
\* (more = 0) or one change event (more = 1)
EventsOf(t, n, more) ==
    /\ Len(t.ev) = n + more
    /\ \A k \in 1..n : t.ev[k].e = "input"
    /\ more = 1 => t.ev[n + 1].e = "change"

\* how far a sequence has come: 0 in the settle delay, k while waiting to write
\* its k-th character, Len(text) + 1 in the post-type delay
StepOf(t) ==
    CASE t.pc = "settle" -> 0
      [] t.pc = "key" -> t.i
      [] t.pc = "jitter" -> Len(t.text) + 1

\* C14: a password entry sequence takes the lock, focuses the field and waits
\* the settle delay; then writes the characters of the credential one by one,
\* dispatches change and waits the post-type delay; then clicks the next
\* control once and sets the release timer in the same step.  The lock is held
\* all the way; the next control is clicked only by a sequence that has written
\* every character; a sequence that has started reaches the click unless the
\* page is unloaded first.
C14_SequenceOrder ==
    /\ [](\A j \in DOMAIN typers :
            LET t == typers[j] IN
              /\ isTyping
              /\ timers.release = 0
              /\ t.text # <<>>
              /\ t.pc = "settle" => t.ev = <<>>
              /\ t.pc = "key" => (t.i \in 1..Len(t.text) /\ EventsOf(t, t.i - 1, 0))
              /\ t.pc = "jitter" => EventsOf(t, Len(t.text), 1))
    /\ [][Len(typers') > Len(typers) =>
            /\ op' = "loginTick"
            /\ ~isTyping /\ isTyping' /\ typers = <<>>
            /\ eff' = <<<<"getValue", "GOOGLE_PASSWORD">>, <<"lock", "isTyping">>,
                        <<"log", "typing">>, <<"focus", "passwordInput">>,
                        <<"sleep", "settle">>>>
            /\ typers' = <<NewTyper(cred)>>]_vars
    /\ [][(typers # <<>> /\ typers' # <<>> /\ typers' # typers /\ op' # "page") =>
            /\ typers'[1].text = typers[1].text
            /\ StepOf(typers'[1]) = StepOf(typers[1]) + 1
            /\ op' = (IF typers[1].pc = "settle" THEN "settleDone" ELSE "keyDone")
            /\ typers[1].pc = "key" <=> Has(eff', "setValue")
            /\ typers'[1].pc = "jitter" <=> Has(eff', "dispatch") /\ eff'[Len(eff')] = <<"sleep", "jitter">>
            /\ isTyping']_vars
    /\ [][(\E k \in DOMAIN eff' : eff'[k] \in {<<"click", "nextButton">>,
                                               <<"click", "nextInner">>}) =>
            /\ op' = "jitterDone"
            /\ typers # <<>> /\ typers[1].pc = "jitter"
            /\ EventsOf(typers[1], Len(typers[1].text), 1)
            /\ typers' = <<>>
            /\ isTyping /\ isTyping'
            /\ CountKind(eff', "click") = 1
            /\ eff'[Len(eff')] = <<"setTimeout", "release">>
            /\ timers'.release = 1]_vars
    /\ [][Len(typers') < Len(typers) => op' \in {"jitterDone", "load"}]_vars
    /\ (typers # <<>>) ~> (op = "jitterDone" \/ op = "load")

\* the next control has just been clicked after both characters of the
\* credential were written, the lock still held and its release set
C14_Witness ==
    /\ op = "jitterDone"
    /\ Has(eff, "click")
    /\ Len(cred) = 2 /\ field = cred
    /\ isTyping
    /\ timers.release = 1

\* a tick of the login poll finds the lock free, no account chooser, and the
\* password prompt complete, visible and empty
TickAtEmptyPrompt ==
    /\ op' = "loginTick"
    /\ ~isTyping
    /\ ~dom.accountItem
    /\ dom.passwordInput /\ dom.nextButton /\ dom.visible
    /\ field = <<>>

\* C15: with no stored credential a tick at a visible, empty password prompt
\* reads the store and logs a warning, nothing more: no lock, no write, no
\* click, no timer, and the poll stays active, so the next tick does the same;
\* once a credential has been stored, in the same page, a tick at the prompt
\* starts the typing sequence with it.
C15_NoCredentialWarns ==
    /\ [][(TickAtEmptyPrompt /\ cred = <<>>) =>
            /\ eff' = <<<<"getValue", "GOOGLE_PASSWORD">>, <<"warn", "no password">>>>
            /\ ~isTyping'
            /\ typers' = typers /\ field' = field /\ dom' = dom
            /\ timers' = timers /\ intervals' = intervals
            /\ cred' = cred]_vars
    /\ [][(TickAtEmptyPrompt /\ cred # <<>>) =>
            /\ ~Has(eff', "warn")
            /\ Has(eff', "lock") /\ isTyping'
            /\ typers' = <<NewTyper(cred)>>]_vars
    /\ [][Has(eff', "warn") => (TickAtEmptyPrompt /\ cred = <<>>)]_vars
    /\ [](hist.warned =>
            \E i \in DOMAIN intervals :
               intervals[i].kind = "loginPoll" /\ intervals[i].active)

\* a tick has warned in this page, the password was then stored through the
\* menu, and a tick has now started typing
C15_Witness ==
    /\ hist.warned
    /\ op = "loginTick"
    /\ Has(eff, "lock")
    /\ typers # <<>> /\ typers[1].text = cred

\* C16: a tick starts a typing sequence only if the lock is free, no account
\* item is found, the password input and the next control are both found, the
\* input is visible and empty, and the stored credential is not empty; when
\* any of these fails the tick leaves the lock, the field and the sequences
\* as they were and sets no timer.
C16_StartConditions ==
    /\ [][(op' = "loginTick" /\ (Has(eff', "lock") \/ typers' # typers
                                  \/ isTyping' # isTyping)) =>
            (~isTyping /\ PromptReady)]_vars
    /\ [][(op' = "loginTick" /\ ~(~isTyping /\ PromptReady)) =>
            /\ isTyping' = isTyping
            /\ typers' = typers
            /\ field' = field
            /\ timers' = timers
            /\ ~Has(eff', "lock") /\ ~Has(eff', "focus") /\ ~Has(eff', "sleep")]_vars
    /\ [][(op' = "loginTick" /\ ~isTyping /\ PromptReady) =>
            (isTyping' /\ Len(typers') = Len(typers) + 1)]_vars

\* a tick has just taken the lock at a complete, visible, empty prompt, the
\* sequence waiting in its settle delay
C16_Witness ==
    /\ op = "loginTick"
    /\ Len(eff) = 5 /\ eff[2] = <<"lock", "isTyping">>
    /\ PromptReady
    /\ typers # <<>> /\ typers[1].pc = "settle"

\* C17: a tick that finds isTyping set returns at once, whatever the page
\* shows: it clicks no account item, reads no credential, starts no typing, and
\* changes nothing of the page or the script.
C17_LockedTickSkipped ==
    /\ [][(op' = "loginTick" /\ isTyping) =>
            /\ eff' = <<>>
            /\ UNCHANGED <<host, path, scriptRan, handlers, intervals, timers,
                           isTyping, typers, dom, field, cred, cookieReq, resp,
                           posts, xhr, answer, submitClicks, hist>>]_vars
    /\ [][(op' = "loginTick" /\ eff' # <<>>) => ~isTyping]_vars
    /\ [][(\E k \in DOMAIN eff' : eff'[k] = <<"click", "accountItem">>) =>
            (op' = "loginTick" /\ ~isTyping /\ dom.accountItem)]_vars

\* a tick has just been skipped under the lock although the account chooser
\* is on the page
C17_Witness ==
    /\ op = "loginTick"
    /\ isTyping
    /\ dom.accountItem
    /\ eff = <<>>

\* the keystroke delays a sequence has asked for so far: one per character up
\* to the one it is waiting to write
DelaysOf(t) ==
    CASE t.pc = "settle" -> 0
      [] t.pc = "key" -> t.i
      [] t.pc = "jitter" -> Len(t.text)

\* C18: every keystroke delay is a whole number from 50 to 150, so the delays
\* of a sequence that has asked for k of them sum to between 50*k and 150*k,
\* and those of a string of N characters typed in full to between 50*N and
\* 150*N, whatever the random draws.
C18_DelayBounds ==
    /\ [](\A j \in DOMAIN typers :
            LET t == typers[j] IN
              /\ t.slept \in Nat
              /\ 50 * DelaysOf(t) <= t.slept
              /\ t.slept <= 150 * DelaysOf(t)
              /\ t.pc = "jitter" =>
                    (50 * Len(t.text) <= t.slept /\ t.slept <= 150 * Len(t.text)))
    /\ [][(typers # <<>> /\ typers' # <<>>
           /\ DelaysOf(typers'[1]) = DelaysOf(typers[1]) + 1) =>
            /\ typers'[1].slept - typers[1].slept >= 50
            /\ typers'[1].slept - typers[1].slept <= 150
            /\ <<"sleep", "key">> = eff'[Len(eff')]]_vars
    /\ [][(typers # <<>> /\ typers' # <<>>
           /\ DelaysOf(typers'[1]) = DelaysOf(typers[1])) =>
            typers'[1].slept = typers[1].slept]_vars

\* two characters typed, one after the shortest delay and one after the longest
C18_Witness ==
    \E j \in DOMAIN typers :
      /\ typers[j].pc = "jitter"
      /\ Len(typers[j].text) = 2
      /\ typers[j].slept = 50 + 149

\* C19: a pending release timer implies the lock is set and no sequence is in
\* progress; at most one release timer is pending; a sequence in progress and a
\* pending release timer never coexist, so the timer that fires clears the lock
\* of the sequence that set it; a sequence starts only with the lock free and
\* no release timer pending, that is, after the previous sequence's timer has
\* fired; sequences follow one another without a limit on their number.
C19_ReleaseTimerLock ==
    /\ [](/\ timers.release <= 1
          /\ timers.release > 0 => (isTyping /\ typers = <<>>)
          /\ Len(typers) + timers.release <= 1
          /\ isTyping <=> (Len(typers) + timers.release = 1))
    /\ [][timers'.release > timers.release =>
            (op' = "jitterDone" /\ timers.release = 0 /\ Len(typers) = 1
             /\ typers' = <<>>)]_vars
    /\ [][op' = "release" =>
            (timers.release = 1 /\ timers'.release = 0 /\ typers = <<>>
             /\ typers' = <<>> /\ isTyping /\ ~isTyping')]_vars
    /\ [][(op' = "loginTick" /\ Has(eff', "lock")) =>
            (timers.release = 0 /\ typers = <<>> /\ ~isTyping)]_vars
    /\ [][(isTyping /\ op' # "load") =>
            (isTyping' \/ (op' = "release" /\ timers.release = 1))]_vars

\* a second sequence is in progress in a page whose release timer has fired
\* once already
C19_Witness ==
    /\ hist.released
    /\ typers # <<>>
    /\ isTyping
    /\ timers.release = 0

\* the POST bodies a page has sent, as the answer of the cookie store fixes
\* them: the first cookie's value when there is one and no error, else none
PostsOf(r) ==
    IF ~r.error /\ ~r.isNull /\ Len(r.cookies) > 0 THEN <<r.cookies[1]>> ELSE <<>>

\* the POSTs of a page are fixed by the cookie store's answer alone, so two
\* runs that differ in the stored credential only send the same; a POST is
\* made by the cookie callback and by nothing else, on a business page; the
\* identity provider's page and the interstitial send and ask nothing
PostsFromCookieOnly ==
    /\ [](posts = PostsOf(resp))
    /\ [](\A k \in DOMAIN posts : posts[k] \in TokenSet)
    /\ [][Has(eff', "POST") =>
            /\ op' = "cookieCallback"
            /\ RouteOf = "handleLabsGoogle"
            /\ Details(eff', "POST") = PostsOf(resp')
            /\ cred' = cred]_vars
    /\ [][posts' # posts => (Has(eff', "POST") \/ op' \in {"load", "reload"})]_vars
    /\ [](RouteOf = "handleAccountsGoogle" => (posts = <<>> /\ xhr = 0 /\ cookieReq = 0))
    /\ [][cred' # cred => (op' \in {"menuSet", "menuClear"} /\ Has(eff', "store"))]_vars

\* C20 as stated: the credential does not reach the backend, and it is read by
\* the login poll on the identity provider's page and by nothing else.
C20_ReadOnlyByLogin ==
    /\ PostsFromCookieOnly
    /\ [][Has(eff', "getValue") =>
            (op' = "loginTick" /\ RouteOf = "handleAccountsGoogle")]_vars

\* C20: the credential does not reach the backend: every POST body is the
\* first cookie of the store's answer, whatever the credential, and no POST
\* leaves the identity provider's page.  The credential is read by the login
\* poll on the identity provider's page, which types it into that page's
\* field, and by the set-password menu command on any page the script runs on,
\* which shows it as the prompt's default; by nothing else.
C20_CredentialNotPosted ==
    /\ PostsFromCookieOnly
    /\ [][Has(eff', "getValue") =>
            \/ op' = "loginTick" /\ RouteOf = "handleAccountsGoogle" /\ ~isTyping
            \/ op' = "menuSet" /\ eff'[2] = <<"prompt", "oldPwd">>]_vars
    /\ [][op' = "menuSet" => Has(eff', "getValue")]_vars

\* on a business page that has posted its cookie, the set-password command
\* has just read the stored password
C20_Witness ==
    /\ op = "menuSet"
    /\ Has(eff, "getValue")
    /\ RouteOf = "handleLabsGoogle"
    /\ posts # <<>>
    /\ cred # <<>>

====
